---- MODULE Spec2Model ----
(***************************************************************************)
(* pyrealtime: layers (threads running BaseLayer.process_loop) connected   *)
(* by Ports that fan every emitted item out to per-subscriber queues.      *)
(* The model follows src/pyrealtime/layer.py, input_layers.py and          *)
(* decode_layer.py.  Every layer is a thread with a program counter; the   *)
(* shared objects are the queues and the stop event.                       *)
(***************************************************************************)
EXTENDS Naturals, Integers, Sequences, FiniteSets, TLC

\* ---------------------------------------------------------------- bounds
\* Number of items a rate-limited generator yields before it only returns NONE.
MaxItems == 2
\* The rolling FPS window is forced to elapse once count reaches this value.
MaxCount == 1
\* Number of completion_handler calls the history of hooks keeps.
MaxCompletions == 2
\* Number of hook calls after which a TIMER layer is not followed further (it
\* ticks for ever, whether or not items arrive).
MaxTicks == 3
\* Number of queues the construction calls may create.
MaxQueues == 2

\* ---------------------------------------------------------------- values
\* Items are tagged: the two sentinels, opaque payloads, and mappings.
NONE == <<"NONE">>
STOP == <<"STOP">>
Item(v) == <<"item", v>>
Map(m) == <<"map", m>>
IsNone(x) == x[1] = "NONE"
IsLayerSignal(x) == x[1] = "STOP"
IsStop(x) == IsLayerSignal(x)
IsMap(x) == x[1] = "map"
EmptyDict == <<>>

VARIABLES
    cfg,          \* constructor arguments and user callbacks of each layer
    keys,         \* TransformMixin.keys: the ordered input keys of each layer
    ports_in,     \* TransformMixin.ports_in: key -> subscriber queue
    ports,        \* MultiOutputMixin.ports: declared port names (insertion order)
    auto_ports,   \* MultiOutputMixin.auto_ports: auto port names (insertion order)
    out_queues,   \* Port.out_queues: port -> sequence of subscriber queues
    sinks,        \* queues read by the embedding application
    built,        \* history: the last graph-construction call and its outcome
    queue,        \* contents of every queue
    stop_event,   \* the shared stop event
    pc,           \* control point of each layer's thread
    counter,      \* BaseLayer.counter
    is_first,     \* BaseLayer.is_first
    count,        \* BaseLayer.count (rolling FPS count)
    expired,      \* MultipleShotInputLayer.expired
    data,         \* the dict under construction in get_input, then its result
    ki,           \* index into keys of the key get_input is polling
    result,       \* data_transformed
    outbox,       \* puts of the running handle_output that are still to be done
    put_hist,     \* history: every item ever put on each queue
    handled,      \* history: non-NONE items passed to each Port.handle_output
    inputs,       \* history: non-NONE values returned by get_input
    hooks,        \* history: post_init / transform / shutdown / completion calls
    iter          \* history: the current loop iteration (snapshot at its start)

confvars == <<cfg, keys, ports_in, ports, auto_ports, out_queues, sinks,
              built>>
vars == <<cfg, keys, ports_in, ports, auto_ports, out_queues, sinks, built, queue,
          stop_event, pc, counter, is_first, count, expired, data, ki, result,
          outbox, put_hist, handled, inputs, hooks, iter>>

Layers == DOMAIN pc
Queues == DOMAIN queue
OutPort(l) == <<l, "out_port">>

\* ------------------------------------------------------------------ Port
\* Port.handle_output as it would run if the loop over out_queues stopped
\* after the first queue.
PortPutsFirstOnly(p, x) ==
    IF IsNone(x) \/ out_queues[p] = <<>> THEN <<>>
    ELSE << <<out_queues[p][1], x>> >>

\* Port.handle_output: the puts it performs, in order.
PortPuts(p, x) ==
    IF IsNone(x) THEN <<>>
    ELSE [i \in 1..Len(out_queues[p]) |-> <<out_queues[p][i], x>>]

\* The history of items handed to port p, after handle_output(x) on it.
PortLog(h, p, x) ==
    IF IsNone(x) THEN h ELSE [h EXCEPT ![p] = Append(@, x)]

\* The Port objects of layer l.
PortsOf(l) == {p \in DOMAIN out_queues : p[1] = l}

\* The Port objects of a multi-output layer: ports[name] and auto_ports[name]
\* are different objects even for the same name.
DeclaredPort(l, n) == <<l, n>>
AutoPort(l, n) == <<l, n, "auto">>
Names(s) == {s[i] : i \in 1..Len(s)}

\* Lines 246-249: the port handle_output feeds for a key of its key list.
PortForKey(l, n) ==
    IF n \in Names(ports[l]) THEN DeclaredPort(l, n) ELSE AutoPort(l, n)

\* MultiOutputMixin.handle_output: the loop over declared and auto ports.
RECURSIVE MultiPuts(_, _, _)
MultiPuts(l, names, m) ==
    IF names = <<>> THEN <<>>
    ELSE (IF Head(names) \in DOMAIN m
          THEN PortPuts(PortForKey(l, Head(names)), m[Head(names)])
          ELSE <<>>) \o MultiPuts(l, Tail(names), m)

RECURSIVE MultiLog(_, _, _, _)
MultiLog(h, l, names, m) ==
    IF names = <<>> THEN h
    ELSE MultiLog(IF Head(names) \in DOMAIN m
                  THEN PortLog(h, PortForKey(l, Head(names)), m[Head(names)])
                  ELSE h, l, Tail(names), m)

\* The key list of handle_output as it would be without the auto ports.
AllPortsDeclared(l) == ports[l]

AllPorts(l) == ports[l] \o auto_ports[l]

\* data[key] on something that is not a mapping raises TypeError, which the
\* "except KeyError" does not catch: the thread dies in handle_output.
HandleOutputRaises(l, x) ==
    cfg[l].multi /\ ~IsNone(x) /\ ~IsMap(x) /\ AllPorts(l) # <<>>

\* handle_output of layer l: BaseOutputLayer's, or MultiOutputMixin's followed
\* by BaseOutputLayer's through super().
HandleOutput(l, x) ==
    IF cfg[l].multi /\ IsMap(x)
    THEN MultiPuts(l, AllPorts(l), x[2]) \o PortPuts(OutPort(l), x)
    ELSE PortPuts(OutPort(l), x)

HandleLog(h, l, x) ==
    IF cfg[l].multi /\ IsMap(x)
    THEN PortLog(MultiLog(h, l, AllPorts(l), x[2]), OutPort(l), x)
    ELSE PortLog(h, OutPort(l), x)

\* ------------------------------------------------------------- callbacks
\* The user's transform (or decoder), as the set of results it may give for d.
\* cfg[l].tf lists what the callback of layer l may do.
Apply(o, d) ==
    CASE o[1] = "id"     -> d
      [] o[1] = "none"   -> NONE
      [] o[1] = "stop"   -> STOP
      [] o[1] = "decode" -> Map([k \in o[2] |-> d])
      [] o[1] = "decode_none" -> Map([k \in o[2] |-> NONE])

TransformResults(l, d) == {Apply(o, d) : o \in cfg[l].tf}

\* The user's frame generator: an item for the counter (the default generate
\* returns the counter itself; cfg[l].base tells the generators apart) or,
\* when it may skip, NONE.
Generate(l) ==
    IF counter[l] >= MaxItems THEN {NONE}
    ELSE {Item(cfg[l].base + counter[l])}
         \cup (IF cfg[l].gen_none THEN {NONE} ELSE {})

\* BaseLayer.tick: count += 1, and reset() once the time window has elapsed.
\* Time is not modelled: a positive window may have elapsed at any tick, a
\* window of zero has elapsed at every tick.
Tick(l) ==
    IF cfg[l].time_window = 0 \/ count[l] + 1 > MaxCount THEN {0}
    ELSE {count[l] + 1, 0}

\* -------------------------------------------------------------- get_input
\* data[key] = value
Bind(d, k, v) == (k :> v) @@ d

\* TransformMixin.get_input, lines 298-300: a layer whose only key is
\* 'default' returns data['default'] (KeyError when absent), else the dict.
UnwrapRaises(l, d) == keys[l] = <<"default">> /\ "default" \notin DOMAIN d
Unwrap(l, d) == IF keys[l] = <<"default">> THEN d["default"] ELSE Map(d)

\* The next key index to poll after index i (get_ensure_layer skips the
\* trigger key, which it has taken first).
RECURSIVE NextKey(_, _)
NextKey(l, i) ==
    IF i > Len(keys[l]) THEN i
    ELSE IF cfg[l].trigger = "LAYER" /\ keys[l][i] = cfg[l].trigger_source
         THEN NextKey(l, i + 1)
         ELSE i

\* get_input returns v (or raises): the loop goes on with the returned value.
Return(l, v) ==
    /\ data' = [data EXCEPT ![l] = v]
    /\ pc' = [pc EXCEPT ![l] = "got"]
    /\ ki' = [ki EXCEPT ![l] = 1]
    /\ inputs' = IF IsNone(v) THEN inputs ELSE [inputs EXCEPT ![l] = Append(@, v)]
    /\ iter' = [iter EXCEPT ![l].got_count = count'[l]]

\* The key loop moves on to index i with dict d, or get_input returns.
Advance(l, d, i) ==
    LET j == NextKey(l, i) IN
    IF j <= Len(keys[l])
    THEN /\ data' = [data EXCEPT ![l] = d]
         /\ ki' = [ki EXCEPT ![l] = j]
         /\ pc' = [pc EXCEPT ![l] = "input"]
         /\ UNCHANGED <<inputs, iter>>
    ELSE IF UnwrapRaises(l, d)
    THEN /\ data' = [data EXCEPT ![l] = d]
         /\ pc' = [pc EXCEPT ![l] = "crashed"]
         /\ UNCHANGED <<ki, inputs, iter>>
    ELSE Return(l, Unwrap(l, d))

\* A get that would leave the item in the queue.
TakePeek(q) == queue' = queue

Take(q) == queue' = [queue EXCEPT ![q] = Tail(@)]

\* InputLayer.get_input
InputGet(l) ==
    /\ \E v \in Generate(l), c \in Tick(l) :
          /\ count' = [count EXCEPT ![l] = c]
          /\ Return(l, v)
    /\ UNCHANGED <<queue, expired, hooks>>

\* OneShotInputLayer.get_input as it would run without the test of counter.
OneShotGetAlways(l) ==
    /\ UNCHANGED <<queue, count, expired, hooks>>
    /\ Return(l, cfg[l].value)

\* OneShotInputLayer.get_input
OneShotGet(l) ==
    /\ UNCHANGED <<queue, count, expired, hooks>>
    /\ Return(l, IF counter[l] = 0 THEN cfg[l].value ELSE NONE)

Completions(l) == {i \in 1..Len(hooks[l]) : hooks[l][i][1] = "completion"}

\* self.completion_handler() (lines 73-74; the handler is never None).  The
\* history keeps the first MaxCompletions calls.
CompletionHandler(l) ==
    hooks' = [hooks EXCEPT ![l] =
                IF Cardinality(Completions(l)) < MaxCompletions
                THEN Append(@, <<"completion">>) ELSE @]

\* MultipleShotInputLayer.get_input (num_shots is the field: the argument plus
\* one when finish is set).
MultiShotGet(l) ==
    LET n == IF cfg[l].finish THEN cfg[l].num_shots + 1 ELSE cfg[l].num_shots IN
    /\ IF counter[l] < n - 1
       THEN /\ \E c \in Tick(l) : count' = [count EXCEPT ![l] = c]
            /\ Return(l, Item(counter[l]))
            /\ UNCHANGED <<expired, hooks>>
       ELSE IF counter[l] = n - 1
       THEN /\ \E c \in Tick(l) : count' = [count EXCEPT ![l] = c]
            /\ CompletionHandler(l)
            /\ Return(l, IF cfg[l].finish THEN Item(-1) ELSE NONE)
            /\ UNCHANGED expired
       ELSE /\ expired' = [expired EXCEPT ![l] = TRUE]
            /\ UNCHANGED <<count, hooks>>
            /\ Return(l, NONE)
    /\ UNCHANGED queue

\* TransformMixin.get_all: a blocking get per key (pc "input"), then with
\* discard_old get_nowait until Empty (pc "drain").
GetAllWith(l, discard_old) ==
    LET k == keys[l][ki[l]]
        q == ports_in[l][k]
    IN
    /\ UNCHANGED <<count, expired, hooks>>
    /\ IF pc[l] = "input"
       THEN /\ queue[q] # <<>>
            /\ Take(q)
            /\ IF discard_old
               THEN /\ data' = [data EXCEPT ![l] = Bind(@, k, Head(queue[q]))]
                    /\ pc' = [pc EXCEPT ![l] = "drain"]
                    /\ UNCHANGED <<ki, inputs, iter>>
               ELSE Advance(l, Bind(data[l], k, Head(queue[q])), ki[l] + 1)
       ELSE IF queue[q] # <<>>
            THEN /\ Take(q)
                 /\ data' = [data EXCEPT ![l] = Bind(@, k, Head(queue[q]))]
                 /\ UNCHANGED <<pc, ki, inputs, iter>>
            ELSE /\ Advance(l, data[l], ki[l] + 1)
                 /\ UNCHANGED queue

\* get_all as get_input calls it, and as it would run if it always discarded.
GetAllDiscarding(l) == GetAllWith(l, TRUE)
GetAll(l) == GetAllWith(l, cfg[l].discard_old)

\* The drain as it would run if it kept the first item it removed.
PollKeyKeepsFirst(l) ==
    LET k == keys[l][ki[l]]
        q == ports_in[l][k]
    IN
    IF queue[q] # <<>>
    THEN /\ Take(q)
         /\ IF cfg[l].discard_old
            THEN /\ data' = [data EXCEPT ![l] =
                               IF k \in DOMAIN @ THEN @
                               ELSE Bind(@, k, Head(queue[q]))]
                 /\ UNCHANGED <<pc, ki, inputs, iter>>
            ELSE Advance(l, Bind(data[l], k, Head(queue[q])), ki[l] + 1)
    ELSE /\ Advance(l, data[l], ki[l] + 1)
         /\ UNCHANGED queue

\* The non-blocking drain of one key, shared by get_all_nowait and
\* get_ensure_layer: get_nowait; without discard_old break after the first.
PollKey(l) ==
    LET k == keys[l][ki[l]]
        q == ports_in[l][k]
    IN
    IF queue[q] # <<>>
    THEN /\ Take(q)
         /\ IF cfg[l].discard_old
            THEN /\ data' = [data EXCEPT ![l] = Bind(@, k, Head(queue[q]))]
                 /\ UNCHANGED <<pc, ki, inputs, iter>>
            ELSE Advance(l, Bind(data[l], k, Head(queue[q])), ki[l] + 1)
    ELSE /\ Advance(l, data[l], ki[l] + 1)
         /\ UNCHANGED queue

\* TransformMixin.get_all_nowait (after the TIMER sleep)
GetAllNowait(l) ==
    /\ UNCHANGED <<count, expired, hooks>>
    /\ PollKey(l)

\* get_any as it would run if it went on over the keys after a success.
GetAnyCollects(l) ==
    /\ UNCHANGED <<count, expired, hooks>>
    /\ PollKey(l)

\* TransformMixin.get_any: poll the keys in turn, return the first success as
\* a single-entry dict; after a fruitless pass sleep and start over.
GetAny(l) ==
    LET k == keys[l][ki[l]]
        q == ports_in[l][k]
    IN
    /\ UNCHANGED <<count, expired, hooks>>
    /\ IF queue[q] # <<>>
       THEN /\ Take(q)
            /\ Return(l, Unwrap(l, Bind(data[l], k, Head(queue[q]))))
       ELSE /\ ki' = [ki EXCEPT ![l] = IF ki[l] = Len(keys[l]) THEN 1 ELSE ki[l] + 1]
            /\ UNCHANGED <<queue, data, pc, inputs, iter>>

\* get_ensure_layer as it would run if it did not wait for the trigger key.
GetEnsureLayerNoWait(l) ==
    /\ UNCHANGED <<count, expired, hooks>>
    /\ IF ki[l] = 0
       THEN /\ Advance(l, data[l], 1)
            /\ UNCHANGED queue
       ELSE PollKey(l)

\* TransformMixin.get_ensure_layer: a blocking get on the trigger key (ki = 0),
\* then the non-blocking drain of every other key.
GetEnsureLayer(l) ==
    /\ UNCHANGED <<count, expired, hooks>>
    /\ IF ki[l] = 0
       THEN LET k == cfg[l].trigger_source
                q == ports_in[l][k]
            IN /\ queue[q] # <<>>
               /\ Take(q)
               /\ Advance(l, Bind(data[l], k, Head(queue[q])), 1)
       ELSE PollKey(l)

\* One step of the layer's get_input.
GetInput(l) ==
    /\ pc[l] \in {"input", "drain"}
    /\ CASE cfg[l].kind = "input"     -> InputGet(l)
         [] cfg[l].kind = "oneshot"   -> OneShotGet(l)
         [] cfg[l].kind = "multishot" -> MultiShotGet(l)
         [] cfg[l].kind = "transform" ->
              CASE cfg[l].trigger = "SLOWEST" -> GetAll(l)
                [] cfg[l].trigger = "TIMER"   -> GetAllNowait(l)
                [] cfg[l].trigger = "FASTEST" -> GetAny(l)
                [] cfg[l].trigger = "LAYER"   -> GetEnsureLayer(l)
    /\ UNCHANGED <<confvars, stop_event, counter, is_first, result, outbox,
                   put_hist, handled>>

\* ----------------------------------------------------------- process_loop
\* BaseLayer.stop
Stop == stop_event' = TRUE

\* The first index get_input polls (0: the blocking get of get_ensure_layer).
FirstKey(l) ==
    IF cfg[l].kind = "transform" /\ cfg[l].trigger = "LAYER" THEN 0 ELSE 1

\* handle_output(x) starts: its puts are queued in the outbox, or it raises.
Emit(l, x, at) ==
    IF HandleOutputRaises(l, x)
    THEN /\ pc' = [pc EXCEPT ![l] = "crashed"]
         /\ UNCHANGED <<outbox, handled>>
    ELSE /\ pc' = [pc EXCEPT ![l] = at]
         /\ outbox' = [outbox EXCEPT ![l] = HandleOutput(l, x)]
         /\ handled' = HandleLog(handled, l, x)

\* Line 124, the loop test; when the stop event is set the loop is left and
\* line 145, handle_output(STOP), starts.
LoopTest(l) ==
    /\ pc[l] = "test"
    /\ IF stop_event
       THEN /\ Emit(l, STOP, "exit")
            /\ UNCHANGED <<data, ki, iter>>
       ELSE /\ pc' = [pc EXCEPT ![l] = "input"]
            /\ data' = [data EXCEPT ![l] = EmptyDict]
            /\ ki' = [ki EXCEPT ![l] = FirstKey(l)]
            /\ iter' = [iter EXCEPT ![l] =
                          [counter |-> counter[l], count |-> count[l],
                           is_first |-> is_first[l], puts |-> 0,
                           got_count |-> count[l], outcome |-> "start"]]
            /\ UNCHANGED <<outbox, handled>>
    /\ UNCHANGED <<confvars, queue, stop_event, counter, is_first, count,
                   expired, result, put_hist, inputs, hooks>>

\* post_init as it would run if is_first were never cleared.
PostInitKeepsFirst(l, d) ==
    /\ hooks' = [hooks EXCEPT ![l] =
                   (IF is_first[l] THEN Append(@, <<"post_init", d>>) ELSE @)
                   \o << <<"transform", d>> >>]
    /\ UNCHANGED is_first

\* Lines 134-137: post_init on the first item, then the call of transform.
PostInit(l, d) ==
    /\ hooks' = [hooks EXCEPT ![l] =
                   (IF is_first[l] THEN Append(@, <<"post_init", d>>) ELSE @)
                   \o << <<"transform", d>> >>]
    /\ is_first' = [is_first EXCEPT ![l] = FALSE]

\* Lines 138-140 without the "continue": handle_output(None) does nothing and
\* the loop goes on to tick() and the counter.
AfterTransformNoSkip(l, r) == Emit(l, r, "emit")

\* Lines 138-140: a NONE result skips the rest of the iteration, any other
\* result is handed to handle_output.
AfterTransform(l, r) ==
    IF IsNone(r)
    THEN /\ pc' = [pc EXCEPT ![l] = "test"]
         /\ UNCHANGED <<outbox, handled>>
    ELSE Emit(l, r, "emit")

\* Line 144 left out.
CountUpMissing(l) == UNCHANGED counter

\* Line 144: counter += 1
CountUp(l) == counter' = [counter EXCEPT ![l] = @ + 1]

\* Lines 126-140: what the loop does with the value get_input returned, up to
\* the start of handle_output.  No layer of these graphs has a signal_in, so
\* get_signal (line 133) only clears self.signal.
Process(l) ==
    /\ pc[l] = "got"
    /\ LET d == data[l] IN
       IF IsLayerSignal(d) /\ IsStop(d)
       THEN /\ Stop
            /\ pc' = [pc EXCEPT ![l] = "test"]
            /\ iter' = [iter EXCEPT ![l].outcome = "stop"]
            /\ UNCHANGED <<is_first, result, outbox, handled, hooks>>
       ELSE IF IsNone(d)
       THEN /\ pc' = [pc EXCEPT ![l] = "test"]
            /\ iter' = [iter EXCEPT ![l].outcome = "input"]
            /\ UNCHANGED <<stop_event, is_first, result, outbox, handled, hooks>>
       ELSE /\ PostInit(l, d)
            /\ \E r \in TransformResults(l, d) :
                 /\ result' = [result EXCEPT ![l] = r]
                 /\ iter' = [iter EXCEPT ![l].outcome =
                               IF IsNone(r) THEN "transform" ELSE "emitted"]
                 /\ AfterTransform(l, r)
            /\ UNCHANGED stop_event
    /\ UNCHANGED <<confvars, queue, counter, count, expired, data, ki,
                   put_hist, inputs>>

\* One queue.put of the running handle_output (Port.handle_output, line 43).
Put(l) ==
    /\ pc[l] \in {"emit", "exit"}
    /\ outbox[l] # <<>>
    /\ LET q == Head(outbox[l])[1]
           x == Head(outbox[l])[2]
       IN /\ queue' = [queue EXCEPT ![q] = Append(@, x)]
          /\ put_hist' = [put_hist EXCEPT ![q] = Append(@, x)]
    /\ outbox' = [outbox EXCEPT ![l] = Tail(@)]
    /\ iter' = [iter EXCEPT ![l].puts = @ + 1]
    /\ UNCHANGED <<confvars, stop_event, pc, counter, is_first, count, expired,
                   data, ki, result, handled, inputs, hooks>>

\* Lines 141-144, after handle_output returned: tick, the stop test on the
\* transform result, counter += 1.
AfterEmit(l) ==
    /\ pc[l] = "emit"
    /\ outbox[l] = <<>>
    /\ \E c \in Tick(l) : count' = [count EXCEPT ![l] = c]
    /\ IF IsLayerSignal(data[l]) /\ IsStop(result[l])
       THEN Stop
       ELSE UNCHANGED stop_event
    /\ CountUp(l)
    /\ pc' = [pc EXCEPT ![l] = "test"]
    /\ UNCHANGED <<confvars, queue, is_first, expired, data, ki, result,
                   outbox, put_hist, handled, inputs, hooks, iter>>

\* Line 146, after handle_output(STOP) returned: shutdown(); the thread ends.
Shutdown(l) ==
    /\ pc[l] = "exit"
    /\ outbox[l] = <<>>
    /\ hooks' = [hooks EXCEPT ![l] = Append(@, <<"shutdown">>)]
    /\ pc' = [pc EXCEPT ![l] = "done"]
    /\ UNCHANGED <<confvars, queue, stop_event, counter, is_first, count,
                   expired, data, ki, result, outbox, put_hist, handled,
                   inputs, iter>>

\* ------------------------------------------------------------ environment
\* LayerManager.stop_all: the embedder sets the shared stop event.
StopAll ==
    /\ ~stop_event
    /\ Stop
    /\ UNCHANGED <<confvars, queue, pc, counter, is_first, count, expired,
                   data, ki, result, outbox, put_hist, handled, inputs, hooks,
                   iter>>

\* The embedding application takes an item from a queue it subscribed.
Consume(q) ==
    /\ q \in sinks
    /\ queue[q] # <<>>
    /\ Take(q)
    /\ UNCHANGED <<confvars, stop_event, pc, counter, is_first, count, expired,
                   data, ki, result, outbox, put_hist, handled, inputs, hooks,
                   iter>>

\* ------------------------------------------------------------------ graphs
\* Constructor arguments of a layer (defaults of the source).
Layer(kind) ==
    [kind |-> kind, multi |-> FALSE, trigger |-> "SLOWEST",
     trigger_source |-> "", discard_old |-> FALSE, gen_none |-> FALSE,
     base |-> 0, time_window |-> 5,
     tf |-> {<<"id">>}, value |-> NONE, num_shots |-> 1, finish |-> FALSE]

\* The port names and input keys the construction calls are made with.
PortNames == {"a"}
InputKeys == {"default", "x"}

\* No construction call has been recorded: the last call with its argument,
\* whether the argument was a name already declared or a key already in the
\* key list, whether the call raised, and the state before it if it did; the
\* Ports get_port has returned for each name; the calls that raised; how often
\* the last handle_output fed each Port.
NoCall ==
    [op |-> "none", arg |-> "", clash |-> FALSE, raised |-> FALSE,
     before |-> <<>>, returned |-> [n \in PortNames |-> {}], failed |-> {},
     fed |-> <<>>]

\* The state of the started layers: BaseLayer.__init__ and start().
Started(ls, qs, ps) ==
    /\ built = NoCall
    /\ queue = [q \in qs |-> <<>>]
    /\ put_hist = [q \in qs |-> <<>>]
    /\ handled = [p \in ps |-> <<>>]
    /\ stop_event = FALSE
    /\ pc = [l \in ls |-> "test"]
    /\ counter = [l \in ls |-> 0]
    /\ is_first = [l \in ls |-> TRUE]
    /\ count = [l \in ls |-> 0]
    /\ expired = [l \in ls |-> FALSE]
    /\ data = [l \in ls |-> NONE]
    /\ ki = [l \in ls |-> 1]
    /\ result = [l \in ls |-> NONE]
    /\ outbox = [l \in ls |-> <<>>]
    /\ inputs = [l \in ls |-> <<>>]
    /\ hooks = [l \in ls |-> <<>>]
    /\ iter = [l \in ls |-> [counter |-> 0, count |-> 0, is_first |-> TRUE,
                             puts |-> 0, got_count |-> 0, outcome |-> "start"]]

\* The producers of the chain: InputLayer(frame_generator) with a generator
\* that may return NONE, OneShotInputLayer(42), and
\* MultipleShotInputLayer(num_shots=2, finish=f).
ChainProducers ==
    {[Layer("input") EXCEPT !.gen_none = TRUE],
     [Layer("oneshot") EXCEPT !.value = Item(42)]}
    \cup {[Layer("multishot") EXCEPT !.num_shots = 2, !.finish = f] :
             f \in BOOLEAN}

\* P = one of the producers; T = TransformLayer(P, transformer), whose
\* transformer may return its input, NONE or STOP; the application subscribes
\* P (queue 2) and T (queue 3, which it does not read).
InitChain ==
    /\ \E c \in ChainProducers :
         cfg = [l \in {"P", "T"} |->
                  IF l = "P" THEN c
                  ELSE [Layer("transform") EXCEPT
                          !.tf = {<<"id">>, <<"none">>, <<"stop">>}]]
    /\ keys = [l \in {"P", "T"} |-> IF l = "T" THEN <<"default">> ELSE <<>>]
    /\ ports_in = [l \in {"P", "T"} |->
                     IF l = "T" THEN [k \in {"default"} |-> 1] ELSE <<>>]
    /\ ports = [l \in {"P", "T"} |-> <<>>]
    /\ auto_ports = [l \in {"P", "T"} |-> <<>>]
    /\ out_queues = [p \in {OutPort("P"), OutPort("T")} |->
                       IF p = OutPort("P") THEN <<1, 2>> ELSE <<3>>]
    /\ sinks = {2}
    /\ Started({"P", "T"}, 1..3, {OutPort("P"), OutPort("T")})

\* P = InputLayer(); T = TransformLayer(P, trigger=t, discard_old=disc) with
\* the identity transform; the application subscribes T (queue 2).
ChainWith(t, disc) ==
    /\ cfg = [l \in {"P", "T"} |->
                IF l = "P" THEN [Layer("input") EXCEPT !.time_window = 0]
                ELSE [Layer("transform") EXCEPT
                        !.time_window = 0, !.trigger = t, !.discard_old = disc]]
    /\ keys = [l \in {"P", "T"} |-> IF l = "T" THEN <<"default">> ELSE <<>>]
    /\ ports_in = [l \in {"P", "T"} |->
                     IF l = "T" THEN [k \in {"default"} |-> 1] ELSE <<>>]
    /\ ports = [l \in {"P", "T"} |-> <<>>]
    /\ auto_ports = [l \in {"P", "T"} |-> <<>>]
    /\ out_queues = [p \in {OutPort("P"), OutPort("T")} |->
                       IF p = OutPort("P") THEN <<1>> ELSE <<2>>]
    /\ sinks = {2}
    /\ Started({"P", "T"}, 1..2, {OutPort("P"), OutPort("T")})

\* P = InputLayer(); T1 = TransformLayer(P); T2 = TransformLayer(T1), both
\* with the default identity transform, trigger SLOWEST and discard_old
\* False; the application subscribes T2 (queue 3).
InitChain3 ==
    /\ cfg = [l \in {"P", "T1", "T2"} |->
                IF l = "P" THEN [Layer("input") EXCEPT !.time_window = 0]
                ELSE [Layer("transform") EXCEPT !.time_window = 0]]
    /\ keys = [l \in {"P", "T1", "T2"} |->
                 IF l = "P" THEN <<>> ELSE <<"default">>]
    /\ ports_in = [l \in {"P", "T1", "T2"} |->
                     CASE l = "P" -> <<>>
                       [] l = "T1" -> [k \in {"default"} |-> 1]
                       [] l = "T2" -> [k \in {"default"} |-> 2]]
    /\ ports = [l \in {"P", "T1", "T2"} |-> <<>>]
    /\ auto_ports = [l \in {"P", "T1", "T2"} |-> <<>>]
    /\ out_queues = [p \in {OutPort("P"), OutPort("T1"), OutPort("T2")} |->
                       CASE p = OutPort("P") -> <<1>>
                         [] p = OutPort("T1") -> <<2>>
                         [] p = OutPort("T2") -> <<3>>]
    /\ sinks = {3}
    /\ Started({"P", "T1", "T2"}, 1..3,
               {OutPort("P"), OutPort("T1"), OutPort("T2")})

\* P1 = InputLayer(), P2 = InputLayer(); M = MergeLayer(None, trigger=t,
\* trigger_source=src, discard_old=disc), time_window=timedelta(0) on all
\* three; M.set_input(P1, 'a') and M.set_input(P2, 'b'); the application
\* subscribes M (queue 3).
MergeWith(t, src, disc) ==
    /\ cfg = [l \in {"P1", "P2", "M"} |->
                CASE l = "P1" -> [Layer("input") EXCEPT !.time_window = 0]
                  [] l = "P2" -> [Layer("input") EXCEPT
                                    !.time_window = 0, !.base = 10]
                  [] l = "M"  -> [Layer("transform") EXCEPT
                                    !.time_window = 0, !.trigger = t,
                                    !.trigger_source = src,
                                    !.discard_old = disc]]
    /\ keys = [l \in {"P1", "P2", "M"} |->
                 IF l = "M" THEN <<"a", "b">> ELSE <<>>]
    /\ ports_in = [l \in {"P1", "P2", "M"} |->
                     IF l = "M" THEN [k \in {"a", "b"} |-> IF k = "a" THEN 1 ELSE 2]
                     ELSE <<>>]
    /\ ports = [l \in {"P1", "P2", "M"} |-> <<>>]
    /\ auto_ports = [l \in {"P1", "P2", "M"} |-> <<>>]
    /\ out_queues = [p \in {OutPort("P1"), OutPort("P2"), OutPort("M")} |->
                       CASE p = OutPort("P1") -> <<1>>
                         [] p = OutPort("P2") -> <<2>>
                         [] p = OutPort("M")  -> <<3>>]
    /\ sinks = {3}
    /\ Started({"P1", "P2", "M"}, 1..3,
               {OutPort("P1"), OutPort("P2"), OutPort("M")})

\* The merge with the defaults trigger_source=None, discard_old=False.
Merge(t) == MergeWith(t, "", FALSE)

\* M = MergeLayer(None, trigger=LayerTrigger.LAYER, trigger_source='b') with
\* either value of discard_old.
InitLayer == \E disc \in BOOLEAN : MergeWith("LAYER", "b", disc)

\* The layers that drain their input queues without blocking: a TIMER layer
\* with the single key 'default' or with the keys a and b, a LAYER layer, and
\* a SLOWEST layer that discards.
InitDrain ==
    \/ \E disc \in BOOLEAN : ChainWith("TIMER", disc)
    \/ \E disc \in BOOLEAN : MergeWith("TIMER", "", disc)
    \/ \E disc \in BOOLEAN : MergeWith("LAYER", "b", disc)
    \/ MergeWith("SLOWEST", "", TRUE)

InitMerge == \E t \in {"SLOWEST", "FASTEST"} : Merge(t)

InitSlowest == Merge("SLOWEST")

InitFastest == Merge("FASTEST")

\* P = InputLayer(); D = DecodeLayer(P, decoder, port_names=['a']);
\* T = TransformLayer(D.get_port('a'), transformer); the application
\* subscribes D.get_port('b'), which creates the auto port (queue 3), and D
\* itself (queue 4).  tf lists what the decoder may give.
DecodeGraph(tf) ==
    /\ cfg = [l \in {"P", "D", "T"} |->
                CASE l = "P" -> [Layer("input") EXCEPT !.time_window = 0]
                  [] l = "D" -> [Layer("transform") EXCEPT
                                   !.time_window = 0, !.multi = TRUE,
                                   !.tf = tf]
                  [] l = "T" -> [Layer("transform") EXCEPT !.time_window = 0]]
    /\ keys = [l \in {"P", "D", "T"} |->
                 IF l = "P" THEN <<>> ELSE <<"default">>]
    /\ ports_in = [l \in {"P", "D", "T"} |->
                     CASE l = "P" -> <<>>
                       [] l = "D" -> [k \in {"default"} |-> 1]
                       [] l = "T" -> [k \in {"default"} |-> 2]]
    /\ ports = [l \in {"P", "D", "T"} |-> IF l = "D" THEN <<"a">> ELSE <<>>]
    /\ auto_ports = [l \in {"P", "D", "T"} |->
                       IF l = "D" THEN <<"b">> ELSE <<>>]
    /\ out_queues = [p \in {OutPort("P"), OutPort("D"), OutPort("T"),
                             DeclaredPort("D", "a"), AutoPort("D", "b")} |->
                       CASE p = OutPort("P") -> <<1>>
                         [] p = DeclaredPort("D", "a") -> <<2>>
                         [] p = AutoPort("D", "b") -> <<3>>
                         [] p = OutPort("D") -> <<4>>
                         [] p = OutPort("T") -> <<>>]
    /\ sinks = {4}
    /\ Started({"P", "D", "T"}, 1..4,
               {OutPort("P"), OutPort("D"), OutPort("T"),
                DeclaredPort("D", "a"), AutoPort("D", "b")})

\* The decoder gives a mapping with key a, with keys a and b, or NONE.
InitDecode ==
    DecodeGraph({<<"decode", {"a"}>>, <<"decode", {"a", "b"}>>, <<"none">>})

\* The decoder gives a mapping with any of the keys a and b, a mapping that
\* binds both to None, or NONE.
InitRoute ==
    DecodeGraph({<<"decode", {"a"}>>, <<"decode", {"b"}>>,
                 <<"decode", {"a", "b"}>>, <<"decode_none", {"a", "b"}>>,
                 <<"none">>})

\* ---------------------------------------------------- graph construction
\* D = DecodeLayer(None, port_names=None) and T = MergeLayer(None): no port,
\* no input and no subscriber yet; the threads are not started.
InitBuild ==
    /\ cfg = [l \in {"D", "T"} |->
                IF l = "D" THEN [Layer("transform") EXCEPT !.multi = TRUE]
                ELSE Layer("transform")]
    /\ keys = [l \in {"D", "T"} |-> <<>>]
    /\ ports_in = [l \in {"D", "T"} |-> <<>>]
    /\ ports = [l \in {"D", "T"} |-> <<>>]
    /\ auto_ports = [l \in {"D", "T"} |-> <<>>]
    /\ out_queues = [p \in {OutPort("D"), OutPort("T")} |-> <<>>]
    /\ sinks = {}
    /\ Started({"D", "T"}, {}, {OutPort("D"), OutPort("T")})

\* The graph is built before the layers run: no handle_output call yet.
Building == handled[OutPort("D")] = <<>>

\* What a failed construction call has to leave as it was.
Snapshot == <<ports, auto_ports, out_queues, keys, ports_in, queue>>

running == <<cfg, sinks, stop_event, pc, counter, is_first, count, expired,
             data, ki, result, outbox, inputs, hooks, iter>>

\* Port(): a new Port object with no subscriber.
NewPort(p) ==
    /\ out_queues' = out_queues @@ (p :> <<>>)
    /\ handled' = handled @@ (p :> <<>>)

\* Port.get_output: a new queue appended to the subscriber list of p.
GetOutput(p) ==
    /\ out_queues' = [out_queues EXCEPT ![p] = Append(@, Len(queue) + 1)]
    /\ queue' = Append(queue, <<>>)
    /\ put_hist' = Append(put_hist, <<>>)

Called(op, arg, raised) ==
    [built EXCEPT !.op = op, !.arg = arg, !.raised = raised,
                  !.clash = \/ op = "_register_port" /\ arg \in Names(ports["D"])
                            \/ op = "set_input" /\ arg \in Names(keys["T"]),
                  !.before = IF raised THEN Snapshot ELSE <<>>,
                  !.failed = IF raised THEN @ \cup {op} ELSE @,
                  !.fed = <<>>]

\* MultiOutputMixin._register_port(port) with auto=False.
RegisterPort(l, n) ==
    LET raises == n \in Names(ports[l]) IN
    /\ Building
    /\ IF raises
       THEN UNCHANGED <<ports, out_queues, handled>>
       ELSE /\ ports' = [ports EXCEPT ![l] = Append(@, n)]
            /\ NewPort(DeclaredPort(l, n))
    /\ built' = Called("_register_port", n, raises)
    /\ UNCHANGED <<running, keys, ports_in, auto_ports, queue, put_hist>>

\* MultiOutputMixin.get_port(port): the declared port, else the auto port,
\* created by _register_port(port, auto=True) when there is none.
GetPort(l, n) ==
    /\ Building
    /\ IF n \in Names(ports[l]) \/ n \in Names(auto_ports[l])
       THEN UNCHANGED <<auto_ports, out_queues, handled>>
       ELSE /\ auto_ports' = [auto_ports EXCEPT ![l] = Append(@, n)]
            /\ NewPort(AutoPort(l, n))
    /\ built' = [Called("get_port", n, FALSE) EXCEPT
                   !.returned[n] = @ \cup {IF n \in Names(ports[l])
                                           THEN DeclaredPort(l, n)
                                           ELSE AutoPort(l, n)}]
    /\ UNCHANGED <<running, keys, ports_in, ports, queue, put_hist>>

\* The application subscribes a Port it holds: p.get_output().
Subscribe(p) ==
    /\ Building
    /\ Len(queue) < MaxQueues
    /\ GetOutput(p)
    /\ built' = Called("get_output", "", FALSE)
    /\ UNCHANGED <<running, keys, ports_in, ports, auto_ports, handled>>

\* set_input as it would run without its assertion on the key.
SetInputUnchecked(l, p, key) ==
    /\ Building
    /\ Len(queue) < MaxQueues
    /\ keys' = [keys EXCEPT ![l] = Append(@, key)]
    /\ ports_in' = [ports_in EXCEPT ![l] = Bind(@, key, Len(queue) + 1)]
    /\ GetOutput(p)
    /\ built' = Called("set_input", key, FALSE)
    /\ UNCHANGED <<running, ports, auto_ports, handled>>

\* TransformMixin.set_input(port_in, key)
SetInput(l, p, key) ==
    LET raises == key \in Names(keys[l]) IN
    /\ Building
    /\ raises \/ Len(queue) < MaxQueues
    /\ IF raises
       THEN UNCHANGED <<keys, ports_in, out_queues, queue, put_hist>>
       ELSE /\ keys' = [keys EXCEPT ![l] = Append(@, key)]
            /\ ports_in' = [ports_in EXCEPT ![l] = Bind(@, key, Len(queue) + 1)]
            /\ GetOutput(p)
    /\ built' = Called("set_input", key, raises)
    /\ UNCHANGED <<running, ports, auto_ports, handled>>

\* for queue in self.out_queues: queue.put(data), for a sequence of puts.
RECURSIVE PutAll(_, _)
PutAll(qs, puts) ==
    IF puts = <<>> THEN qs
    ELSE PutAll([qs EXCEPT ![Head(puts)[1]] = Append(@, Head(puts)[2])],
                Tail(puts))

\* handle_output(m) on the multi-output layer l, as one step.
EmitMapping(l, m) ==
    /\ Len(handled[OutPort(l)]) < MaxItems
    /\ queue' = PutAll(queue, HandleOutput(l, Map(m)))
    /\ put_hist' = PutAll(put_hist, HandleOutput(l, Map(m)))
    /\ handled' = HandleLog(handled, l, Map(m))
    /\ built' = [Called("handle_output", DOMAIN m, FALSE) EXCEPT
                   !.fed = [p \in DOMAIN handled |->
                              Len(handled'[p]) - Len(handled[p])]]
    /\ UNCHANGED <<running, keys, ports_in, ports, auto_ports, out_queues>>

\* The mappings handle_output is called with: every port name bound to a
\* fresh item.
Mappings(l) == {[n \in PortNames |-> Item(Len(handled[OutPort(l)]))]}

NextBuild ==
    \/ \E n \in PortNames : RegisterPort("D", n)
    \/ \E n \in PortNames : GetPort("D", n)
    \/ \E p \in PortsOf("D") : Subscribe(p)
    \/ \E p \in PortsOf("D"), key \in InputKeys : SetInput("T", p, key)
    \/ \E m \in Mappings("D") : EmitMapping("D", m)

SpecBuild == InitBuild /\ [][NextBuild]_vars

Next ==
    \/ \E l \in Layers : LoopTest(l)
    \/ \E l \in Layers : GetInput(l)
    \/ \E l \in Layers : Process(l)
    \/ \E l \in Layers : Put(l)
    \/ \E l \in Layers : AfterEmit(l)
    \/ \E l \in Layers : Shutdown(l)
    \/ StopAll
    \/ \E q \in Queues : Consume(q)

\* The layers running with the stop event never set.
NextRun ==
    \/ \E l \in Layers : LoopTest(l)
    \/ \E l \in Layers : GetInput(l)
    \/ \E l \in Layers : Process(l)
    \/ \E l \in Layers : Put(l)
    \/ \E l \in Layers : AfterEmit(l)
    \/ \E q \in Queues : Consume(q)

\* The loop test of a layer; a TIMER layer is followed for MaxTicks hook
\* calls.
BoundedLoopTest(l) ==
    /\ cfg[l].trigger = "TIMER" => Len(hooks[l]) < MaxTicks
    /\ LoopTest(l)

\* The layers running with the stop event never set, TIMER layers bounded.
NextDrain ==
    \/ \E l \in Layers : BoundedLoopTest(l)
    \/ \E l \in Layers : GetInput(l)
    \/ \E l \in Layers : Process(l)
    \/ \E l \in Layers : Put(l)
    \/ \E l \in Layers : AfterEmit(l)
    \/ \E q \in Queues : Consume(q)

Spec == InitChain /\ [][Next]_vars

SpecDrain == InitDrain /\ [][NextDrain]_vars

SpecMerge == InitMerge /\ [][Next]_vars

SpecSlowest == InitSlowest /\ [][NextRun]_vars

SpecLayer == InitLayer /\ [][NextRun]_vars

SpecRoute == InitRoute /\ [][NextRun]_vars

SpecChain3 == InitChain3 /\ [][Next]_vars

\* Every step of the thread of layer l.
LayerStep(l) ==
    \/ LoopTest(l)
    \/ GetInput(l)
    \/ Process(l)
    \/ Put(l)
    \/ AfterEmit(l)
    \/ Shutdown(l)

\* The scheduler lets every thread that can take a step take one; a thread
\* blocked in queue.get() cannot.
SpecDecode ==
    /\ InitDecode
    /\ [][Next]_vars
    /\ WF_vars(LayerStep("P"))
    /\ WF_vars(LayerStep("D"))
    /\ WF_vars(LayerStep("T"))

SpecFastest == InitFastest /\ [][NextRun]_vars

\* ------------------------------------------------------------ properties
\* The items still to be put on queue q by the running handle_output of l.
RECURSIVE PendingItems(_, _)
PendingItems(box, q) ==
    IF box = <<>> THEN <<>>
    ELSE (IF Head(box)[1] = q THEN <<Head(box)[2]>> ELSE <<>>)
         \o PendingItems(Tail(box), q)

IsSuffix(s, t) ==
    /\ Len(s) <= Len(t)
    /\ s = SubSeq(t, Len(t) - Len(s) + 1, Len(t))

\* C1 (fan-out FIFO): for every port p and every subscriber queue q of p, the
\* items put on q, followed by the puts of the running handle_output that are
\* still to come, are exactly the non-NONE items passed to p.handle_output, in
\* the same order; consumers only ever remove from the head of q.
C1_FanOutFifo ==
    \A p \in DOMAIN out_queues :
        \A i \in 1..Len(out_queues[p]) :
            LET q == out_queues[p][i] IN
            /\ put_hist[q] \o PendingItems(outbox[p[1]], q) = handled[p]
            /\ IsSuffix(queue[q], put_hist[q])

\* Both subscribers of P's port have received the same two items, while the
\* application has consumed its queue and T has not.
C1_Witness ==
    /\ Len(handled[OutPort("P")]) = 2
    /\ put_hist[1] = handled[OutPort("P")]
    /\ put_hist[2] = handled[OutPort("P")]
    /\ put_hist[1][2] = Item(1)
    /\ queue[2] = <<>>
    /\ Len(queue[1]) = 2

\* C2 (STOP is final on a port): on every subscriber queue, a STOP that has
\* been put is the last item put.
C2_StopIsFinal ==
    \A q \in Queues :
        \A i \in 1..Len(put_hist[q]) :
            IsStop(put_hist[q][i]) => i = Len(put_hist[q])

\* C6 (counter accounting): during an iteration counter keeps the value it
\* had at the loop test; at the loop test it is one more than at the previous
\* loop test exactly when the iteration emitted a transform result, and it
\* equals the number of items the layer has passed to its default port.
C6_CounterAccounting ==
    \A l \in Layers :
        /\ pc[l] \in {"input", "drain", "got", "emit"}
              => counter[l] = iter[l].counter
        /\ pc[l] = "test"
              => /\ counter[l] = iter[l].counter
                                 + (IF iter[l].outcome = "emitted" THEN 1 ELSE 0)
                 /\ counter[l] = Len(handled[OutPort(l)])

\* T is at the loop test after two iterations with input, one of which it
\* skipped (transform returned NONE) and one of which it emitted.
C6_Witness ==
    /\ pc["T"] = "test"
    /\ Len(inputs["T"]) = 2
    /\ counter["T"] = 1
    /\ iter["T"].outcome = "emitted"

\* The first value get_input returned that is neither NONE nor STOP.
RECURSIVE FirstData(_)
FirstData(s) ==
    IF s = <<>> THEN NONE
    ELSE IF IsStop(Head(s)) THEN FirstData(Tail(s)) ELSE Head(s)

PostInits(l) == {i \in 1..Len(hooks[l]) : hooks[l][i][1] = "post_init"}
Transforms(l) == {i \in 1..Len(hooks[l]) : hooks[l][i][1] = "transform"}

\* C7 (post_init): post_init is called at most once per layer; is_first is
\* true exactly as long as it has not been called; when it is called it is
\* the first hook called (so before any transform) and its argument is the
\* first value get_input returned that was neither NONE nor STOP.
C7_PostInitOnce ==
    \A l \in Layers :
        /\ Cardinality(PostInits(l)) <= 1
        /\ is_first[l] <=> PostInits(l) = {}
        /\ Transforms(l) # {} => PostInits(l) # {}
        /\ PostInits(l) # {}
              => /\ PostInits(l) = {1}
                 /\ hooks[l][1][2] = FirstData(inputs[l])

\* T has run post_init and then transform twice.
C7_Witness ==
    /\ Cardinality(Transforms("T")) = 2
    /\ PostInits("T") = {1}
    /\ ~is_first["T"]

Skipped(l) == pc[l] = "test" /\ iter[l].outcome \in {"input", "transform"}

\* C8 as stated (skipped ticks change nothing): at the end of an iteration in
\* which get_input or transform returned NONE, nothing was put on a queue and
\* counter, the rolling FPS count and (for a NONE input) is_first have the
\* values they had when the iteration began.
C8_SkippedTickChangesNothing ==
    \A l \in Layers :
        Skipped(l)
           => /\ iter[l].puts = 0
              /\ counter[l] = iter[l].counter
              /\ count[l] = iter[l].count
              /\ iter[l].outcome = "input" => is_first[l] = iter[l].is_first

\* get_input of these layers does not call tick().
InputDoesNotTick(l) == cfg[l].kind \in {"transform", "oneshot"}

\* C8 as amended: in a skipped iteration nothing is put on a queue and counter
\* and (for a NONE input) is_first are unchanged; the rolling FPS count is not
\* changed after get_input has returned, and it is unchanged over the whole
\* iteration when the layer's get_input does not itself call tick().
C8_SkippedTickAmended ==
    \A l \in Layers :
        Skipped(l)
           => /\ iter[l].puts = 0
              /\ counter[l] = iter[l].counter
              /\ count[l] = iter[l].got_count
              /\ InputDoesNotTick(l) => count[l] = iter[l].count
              /\ iter[l].outcome = "input" => is_first[l] = iter[l].is_first

\* T has skipped an iteration on a NONE transform result after an iteration
\* that emitted and ticked, and P has skipped one on a NONE from its generator.
C8_Witness ==
    /\ Skipped("T") /\ iter["T"].outcome = "transform"
    /\ counter["T"] = 1 /\ count["T"] = 1
    /\ Skipped("P") /\ iter["P"].outcome = "input"

\* d is STOP or a dict with a STOP among its values.
ContainsStop(d) ==
    \/ IsStop(d)
    \/ IsMap(d) /\ \E k \in DOMAIN d[2] : IsStop(d[2][k])

\* C4 (STOP on input stops the layer): a value get_input built from a STOP it
\* took from an input queue is never passed to post_init or transform, and
\* once the loop has dealt with it the stop event is set and the layer is
\* back at the loop test or has left the loop.
C4_StopOnInputStops ==
    \A l \in Layers :
        /\ \A i \in 1..Len(hooks[l]) :
              hooks[l][i][1] \in {"post_init", "transform"}
                 => ~ContainsStop(hooks[l][i][2])
        /\ (/\ inputs[l] # <<>>
            /\ ContainsStop(inputs[l][Len(inputs[l])])
            /\ pc[l] # "got")
              => /\ stop_event
                 /\ pc[l] \in {"test", "exit", "done"}

AllKeys(l) == {keys[l][i] : i \in 1..Len(keys[l])}

\* The i-th item put on the queue of each key of l, as a dict.
Row(l, i) == Map([k \in AllKeys(l) |-> put_hist[ports_in[l][k]][i]])

Fed(l, n) == \A k \in AllKeys(l) : Len(put_hist[ports_in[l][k]]) = n

\* C9 (SLOWEST synchronisation): for a layer with N >= 2 keys, trigger
\* SLOWEST and discard_old false, the i-th value get_input returns is the dict
\* of all N keys with the i-th item of each key's queue; fed MaxItems items on
\* every key it returns at most MaxItems times, and exactly MaxItems times
\* once it is blocked on an empty queue.
C9_SlowestSync ==
    \A l \in Layers :
        (/\ cfg[l].kind = "transform" /\ cfg[l].trigger = "SLOWEST"
         /\ ~cfg[l].discard_old /\ Len(keys[l]) >= 2)
           => /\ \A i \in 1..Len(inputs[l]) :
                    /\ \A k \in AllKeys(l) : i <= Len(put_hist[ports_in[l][k]])
                    /\ inputs[l][i] = Row(l, i)
              /\ Fed(l, MaxItems)
                    => /\ Len(inputs[l]) <= MaxItems
                       /\ (pc[l] = "input" /\ ki[l] = 1
                           /\ queue[ports_in[l][keys[l][1]]] = <<>>)
                             => Len(inputs[l]) = MaxItems

\* Both keys of M have been fed MaxItems items, and M has returned MaxItems
\* dicts, the last one with the last item of each producer, and is blocked
\* on key a.
C9_Witness ==
    /\ Fed("M", MaxItems)
    /\ Len(inputs["M"]) = MaxItems
    /\ inputs["M"][MaxItems] = Map([k \in {"a", "b"} |->
                                     IF k = "a" THEN Item(MaxItems - 1)
                                     ELSE Item(10 + MaxItems - 1)])
    /\ pc["M"] = "input" /\ ki["M"] = 1 /\ queue[1] = <<>>

\* The values get_input of l returned for key k, in order.
RECURSIVE Delivered(_, _)
Delivered(ins, k) ==
    IF ins = <<>> THEN <<>>
    ELSE (IF IsMap(Head(ins)) /\ k \in DOMAIN Head(ins)[2]
          THEN <<Head(ins)[2][k]>> ELSE <<>>) \o Delivered(Tail(ins), k)

\* C10 (FASTEST delivers one key per tick): every value get_any returns is a
\* dict with exactly one entry; for every key the values delivered for it,
\* followed by what is still in its queue, are the items put on that queue in
\* order (each delivery is the removal of the head of that key's queue, and
\* nothing else is removed).
C10_FastestOneKey ==
    \A l \in Layers :
        (cfg[l].kind = "transform" /\ cfg[l].trigger = "FASTEST")
           => /\ \A i \in 1..Len(inputs[l]) :
                    /\ IsMap(inputs[l][i])
                    /\ Cardinality(DOMAIN inputs[l][i][2]) = 1
              /\ \A k \in AllKeys(l) :
                    Delivered(inputs[l], k) \o queue[ports_in[l][k]]
                       = put_hist[ports_in[l][k]]

\* M under FASTEST has delivered two items of key b and then one of key a
\* while a second item of key a is still queued.
C10_Witness ==
    /\ cfg["M"].trigger = "FASTEST"
    /\ Len(inputs["M"]) = 3
    /\ inputs["M"][3] = Map([k \in {"a"} |-> Item(0)])
    /\ Delivered(inputs["M"], "b") = <<Item(10), Item(11)>>
    /\ queue[1] = <<Item(1)>>

Ended(l) == pc[l] \in {"done", "crashed"}

\* C3 (shutdown liveness): once the stop event is set, the thread of every
\* layer eventually ends.
C3_ShutdownLiveness == stop_event ~> (\A l \in Layers : Ended(l))


StopsPut(q) == {i \in 1..Len(put_hist[q]) : IsStop(put_hist[q][i])}

Shutdowns(l) == {i \in 1..Len(hooks[l]) : hooks[l][i][1] = "shutdown"}

\* C5 (terminal STOP on exit): when the thread of a layer has ended, STOP has
\* been put exactly once, as the last item, on every subscriber queue of every
\* output port of the layer, and shutdown() has been called exactly once, as
\* the last hook.
C5_TerminalStop ==
    \A l \in Layers :
        Ended(l)
           => /\ \A p \in PortsOf(l) :
                    \A i \in 1..Len(out_queues[p]) :
                        StopsPut(out_queues[p][i])
                           = {Len(put_hist[out_queues[p][i]])}
              /\ hooks[l] # <<>>
              /\ Shutdowns(l) = {Len(hooks[l])}

\* ------------------------------------------------------- LAYER trigger
LayerTriggered ==
    {l \in Layers : cfg[l].kind = "transform" /\ cfg[l].trigger = "LAYER"}

TriggerQueue(l) == ports_in[l][cfg[l].trigger_source]

\* The step is a step of get_input of l.
InGetInput(l) ==
    /\ pc[l] \in {"input", "drain"}
    /\ <<pc[l], ki[l], data[l]>>' # <<pc[l], ki[l], data[l]>>

\* The dict get_input of l holds after the step.
DictAfter(l) == IF pc'[l] = "got" THEN data'[l][2] ELSE data'[l]

\* Every dict returned holds the trigger key, and the values returned for it,
\* the one taken in the running call and the content of its queue are the
\* items put on that queue, in order; the poll of another key can always run.
LayerTriggerState ==
    \A l \in LayerTriggered :
        LET ks == cfg[l].trigger_source IN
        /\ \A i \in 1..Len(inputs[l]) :
              IsMap(inputs[l][i]) /\ ks \in DOMAIN inputs[l][i][2]
        /\ pc[l] = "input" /\ ki[l] >= 1 =>
              ks \in DOMAIN data[l] /\ ENABLED GetInput(l)
        /\ Delivered(inputs[l], ks)
             \o (IF pc[l] = "input" /\ ki[l] >= 1 /\ ks \in DOMAIN data[l]
                 THEN <<data[l][ks]>> ELSE <<>>)
             \o queue[TriggerQueue(l)] = put_hist[TriggerQueue(l)]

\* A poll of key k that has no entry yet gives it one iff its queue holds an
\* item; no other entry comes or goes.
LayerTriggerPoll ==
    \A l \in LayerTriggered :
        InGetInput(l) /\ ki[l] >= 1 =>
            LET k == keys[l][ki[l]] IN
            /\ k \notin DOMAIN data[l] =>
                  (k \in DOMAIN DictAfter(l) <=> queue[ports_in[l][k]] # <<>>)
            /\ \A j \in DOMAIN ports_in[l] \ {k} :
                  j \in DOMAIN DictAfter(l) <=> j \in DOMAIN data[l]

\* C11 (LAYER trigger): every map get_ensure_layer returns holds the trigger
\* key bound to the next item of that key's queue, one item being removed per
\* tick in FIFO order; any other key is present iff its queue was non-empty
\* when it was polled in that tick; the poll of a non-trigger key never blocks.
C11_LayerTrigger == []LayerTriggerState /\ [][LayerTriggerPoll]_vars

\* One tick found the queue of a empty, the next one did not.
C11_Witness ==
    /\ cfg["M"].trigger = "LAYER"
    /\ inputs["M"] = << Map([k \in {"b"} |-> Item(10)]),
                        Map([k \in {"a", "b"} |->
                               IF k = "a" THEN Item(0) ELSE Item(11)]) >>

\* --------------------------------------------------- multi-shot producer
MultiShots == {l \in Layers : cfg[l].kind = "multishot"}

\* The items a layer constructed with num_shots and finish is to fire:
\* generate(0) .. generate(num_shots - 1), then -1 when finish is set.
Shots(l) ==
    [i \in 1..cfg[l].num_shots |-> Item(i - 1)]
    \o (IF cfg[l].finish THEN <<Item(-1)>> ELSE <<>>)

NotStop(x) == ~IsStop(x)

\* The items the layer has emitted on its output port, the terminal STOP apart.
Fired(l) == SelectSeq(handled[OutPort(l)], NotStop)

\* C12 (multi-shot fires exactly num_shots times): the items a multi-shot
\* layer emits are the first of generate(0) .. generate(num_shots - 1),
\* followed by -1 when finish is set, and once its get_input has returned NONE
\* (the shots are used up) it has emitted all of them.
C12_MultiShotFires ==
    \A l \in MultiShots :
        /\ Len(Fired(l)) <= Len(Shots(l))
        /\ Fired(l) = SubSeq(Shots(l), 1, Len(Fired(l)))
        /\ iter[l].outcome = "input" => Fired(l) = Shots(l)

\* C13 (multi-shot completion): completion_handler is never invoked a second
\* time, it has been invoked once the layer is expired, and an expired layer's
\* get_input returns NONE.
C13_CompletionOnce ==
    \A l \in MultiShots :
        /\ Cardinality(Completions(l)) <= 1
        /\ expired[l] => Cardinality(Completions(l)) = 1
        /\ expired[l] /\ pc[l] = "got" => IsNone(data[l])

\* ------------------------------------------------------ one-shot producer
OneShots == {l \in Layers : cfg[l].kind = "oneshot" /\ ~IsNone(cfg[l].value)}

Subscribers(p) == {out_queues[p][i] : i \in 1..Len(out_queues[p])}

\* STOP is put on a queue only after the stop event has been set.
StopAfterEvent(q) == StopsPut(q) # {} => stop_event

\* C14 (one-shot): what a subscriber of a one-shot layer has been sent is a
\* prefix of [value, STOP], STOP comes only after the stop event has been
\* set, and once the thread has ended it is exactly [value, STOP].
C14_OneShotExact ==
    \A l \in OneShots : \A q \in Subscribers(OutPort(l)) :
        /\ put_hist[q] \in {<<>>, <<cfg[l].value>>, <<cfg[l].value, STOP>>}
        /\ StopAfterEvent(q)
        /\ pc[l] = "done" => put_hist[q] = <<cfg[l].value, STOP>>

\* C14 amended: the value is sent at most once, and exactly once when the
\* first loop test found the stop event not set (get_input has then returned
\* it); a layer stopped before that sends STOP alone.  STOP comes only after
\* the stop event has been set, and nothing else is ever sent.
C14_OneShotAmended ==
    \A l \in OneShots : \A q \in Subscribers(OutPort(l)) :
        /\ put_hist[q] \in {<<>>, <<cfg[l].value>>, <<cfg[l].value, STOP>>,
                             <<STOP>>}
        /\ StopAfterEvent(q)
        /\ Len(inputs[l]) <= 1
        /\ pc[l] = "done" =>
              put_hist[q] = IF inputs[l] = <<>> THEN <<STOP>>
                            ELSE <<cfg[l].value, STOP>>
        /\ inputs[l] = <<>> =>
              iter[l].outcome = "start" /\ pc[l] \in {"test", "input", "exit", "done"}

\* The layer has ended after a get_input call that returned NONE, having sent
\* the value and then STOP.
C14_Witness ==
    /\ "P" \in OneShots
    /\ pc["P"] = "done"
    /\ iter["P"].outcome = "input"
    /\ put_hist[2] = <<cfg["P"].value, STOP>>

\* ----------------------------------------------------- multi-output routing
MultiOutputs == {l \in Layers : cfg[l].multi}

\* The named Port objects of layer l (declared and auto).
NamedPorts(l) == PortsOf(l) \ {OutPort(l)}

\* What the mappings ms bind name n to, in order, None apart.
RECURSIVE Routed(_, _)
Routed(ms, n) ==
    IF ms = <<>> THEN <<>>
    ELSE (IF n \in DOMAIN Head(ms)[2] /\ ~IsNone(Head(ms)[2][n])
          THEN <<Head(ms)[2][n]>> ELSE <<>>) \o Routed(Tail(ms), n)

\* C15 (multi-output routing): what a subscriber of the port named n has been
\* sent, with the puts of the running handle_output still to come, is m[n]
\* once for each emitted mapping m that has key n, in order, and nothing for
\* the mappings without it; a subscriber of the default port is sent every
\* emitted mapping once; NONE, emitted as the result or bound to n, is sent to
\* nobody.
C15_MultiOutputRouting ==
    \A l \in MultiOutputs :
        /\ \A p \in NamedPorts(l) : \A q \in Subscribers(p) :
              put_hist[q] \o PendingItems(outbox[l], q)
                  = Routed(handled[OutPort(l)], p[2])
        /\ \A q \in Subscribers(OutPort(l)) :
              put_hist[q] \o PendingItems(outbox[l], q) = handled[OutPort(l)]
        /\ \A i \in 1..Len(handled[OutPort(l)]) : IsMap(handled[OutPort(l)][i])

\* D has emitted a mapping with key a only and then one with key b only: the
\* subscriber of each port got its sub-item, the subscriber of D both mappings.
C15_Witness ==
    /\ put_hist[4] = << Map([k \in {"a"} |-> Item(0)]),
                        Map([k \in {"b"} |-> Item(1)]) >>
    /\ put_hist[2] = <<Item(0)>>
    /\ put_hist[3] = <<Item(1)>>

\* ------------------------------------------------------- chain of layers
IsPrefix(s, t) == Len(s) <= Len(t) /\ s = SubSeq(t, 1, Len(s))

\* The non-NONE values get_input of l has returned, STOP apart.
Received(l) == SelectSeq(inputs[l], NotStop)

\* C16 (chained FIFO equivalence): what the subscriber of the last layer of
\* producer -> identity -> identity has been sent is a prefix of the items the
\* producer has emitted, and once the three threads have ended it is all of
\* them followed by STOP.
C16_ChainExact ==
    /\ IsPrefix(SelectSeq(put_hist[3], NotStop), Fired("P"))
    /\ (\A l \in Layers : pc[l] = "done") =>
          put_hist[3] = Fired("P") \o <<STOP>>

\* An identity layer with one input has emitted what it received, the item
\* it is processing apart, and received what was put on its input queue.
Relays(l, q) ==
    /\ inputs[l] \o queue[q] = put_hist[q]
    /\ IsPrefix(Fired(l), Received(l))
    /\ Len(Received(l)) <= Len(Fired(l)) + 1

\* C16 amended: the subscriber is sent a prefix of the items the producer
\* emitted, in order, then STOP, once, when the last layer ends; each layer
\* takes the items of its input queue in order and emits them unchanged, so
\* that only the items a layer has not yet emitted when it leaves its loop are
\* lost; while the stop event is not set every layer has emitted all it
\* received but the item it is processing.
C16_ChainAmended ==
    /\ IsPrefix(SelectSeq(put_hist[3], NotStop), Fired("P"))
    /\ StopsPut(3) \subseteq {Len(put_hist[3])}
    /\ pc["T2"] = "done" => StopsPut(3) # {}
    /\ Relays("T1", 1) /\ Relays("T2", 2)
    /\ \A q \in 1..3 : \E l \in Layers :
          put_hist[q] \o PendingItems(outbox[l], q) = handled[OutPort(l)]
    /\ ~stop_event =>
          /\ \A l \in {"T1", "T2"} :
                inputs[l] = Received(l) /\ handled[OutPort(l)] = Fired(l)
          /\ \A l \in {"T1", "T2"} :
                pc[l] \in {"test", "input"} => Fired(l) = Received(l)

\* The three threads have ended and the subscriber has been sent the two
\* items of the producer, then STOP.
C16_Witness ==
    /\ \A l \in Layers : pc[l] = "done"
    /\ Fired("P") = <<Item(0), Item(1)>>
    /\ put_hist[3] = <<Item(0), Item(1), STOP>>

\* The threads have ended, the last item of the producer lost on the way.
C16_WitnessLoss ==
    /\ \A l \in Layers : pc[l] = "done"
    /\ Fired("P") = <<Item(0), Item(1)>>
    /\ put_hist[3] = <<Item(0), STOP>>

\* ---------------------------------------------------------- TIMER trigger
TimerLayers ==
    {l \in Layers : cfg[l].kind = "transform" /\ cfg[l].trigger = "TIMER"}

\* C17 (empty tick under TIMER): get_input of a TIMER layer never raises,
\* whatever its key list; it returns a value, the empty map when every queue
\* was empty, which goes to transform, and the thread is still running.
C17_TimerEmptyTick ==
    \A l \in TimerLayers :
        /\ pc[l] # "crashed"
        /\ pc[l] = "got" => ~IsNone(data[l])

\* With several keys the empty map is returned and passed to transform.
TimerEmptyTickSeveralKeys ==
    \A l \in TimerLayers :
        keys[l] # <<"default">> =>
            /\ pc[l] # "crashed"
            /\ \A i \in 1..Len(inputs[l]) : IsMap(inputs[l][i])
            /\ pc[l] = "got" => ~IsNone(data[l])

EmptyTickSeen ==
    \E l \in TimerLayers : \E i \in 1..Len(hooks[l]) :
        hooks[l][i] = <<"transform", Map(EmptyDict)>>

\* -------------------------------------------------------------- discard_old
\* The layers whose get_input drains without blocking.
Drainers ==
    TimerLayers \cup LayerTriggered
    \cup {l \in Layers : /\ cfg[l].kind = "transform"
                          /\ cfg[l].trigger = "SLOWEST"
                          /\ cfg[l].discard_old}

\* get_input of l is at a get_nowait on the key of index ki[l].
NonBlockingPoll(l) ==
    \/ cfg[l].trigger = "TIMER" /\ pc[l] = "input"
    \/ cfg[l].trigger = "LAYER" /\ pc[l] = "input" /\ ki[l] >= 1
    \/ cfg[l].trigger = "SLOWEST" /\ pc[l] = "drain"

\* The dict of get_input has an entry for k after the step, and its value.
HasAfter(l, k) ==
    IF pc'[l] = "got"
    THEN keys[l] = <<"default">> \/ k \in DOMAIN data'[l][2]
    ELSE k \in DOMAIN data'[l]

ValueAfter(l, k) ==
    IF pc'[l] = "got"
    THEN (IF keys[l] = <<"default">> THEN data'[l] ELSE data'[l][2][k])
    ELSE data'[l][k]

MovesOn(l) == ki'[l] # ki[l] \/ pc'[l] # pc[l]

\* One get_nowait of the drain of key k: an item is removed from the head and
\* becomes the entry of k, and the drain goes on iff discard_old; on Empty the
\* drain of k ends with the queue and the entry of k as they were.
DrainStep ==
    \A l \in Drainers :
        InGetInput(l) /\ NonBlockingPoll(l) =>
            LET k == keys[l][ki[l]]
                q == ports_in[l][k]
            IN
            /\ \A r \in Queues \ {q} : queue'[r] = queue[r]
            /\ IF queue[q] # <<>>
               THEN /\ queue'[q] = Tail(queue[q])
                    /\ HasAfter(l, k) /\ ValueAfter(l, k) = Head(queue[q])
                    /\ MovesOn(l) <=> ~cfg[l].discard_old
               ELSE /\ queue'[q] = queue[q]
                    /\ MovesOn(l)
                    /\ k \in DOMAIN data[l] =>
                          HasAfter(l, k) /\ ValueAfter(l, k) = data[l][k]
                    /\ k \notin DOMAIN data[l] =>
                          pc'[l] = "crashed" \/ keys[l] # <<"default">>
                    /\ k \notin DOMAIN data[l] /\ keys[l] # <<"default">> =>
                          ~HasAfter(l, k)

\* The values get_input of l has returned for key k.
DeliveredKey(l, k) ==
    IF keys[l] = <<"default">> THEN inputs[l] ELSE Delivered(inputs[l], k)

\* The item removed last from queue q, which only its subscriber takes from.
Removed(q) == Len(put_hist[q]) - Len(queue[q])

\* What get_input has just returned for a key is the item removed last from
\* its queue; without discard_old the values returned for a key, followed by
\* the content of its queue, are the items put on it (one removed per call).
DrainState ==
    \A l \in Drainers : \A k \in DOMAIN ports_in[l] :
        LET q == ports_in[l][k] IN
        /\ pc[l] = "got" /\ (keys[l] = <<"default">> \/ k \in DOMAIN data[l][2]) =>
              /\ Removed(q) >= 1
              /\ put_hist[q][Removed(q)]
                   = IF keys[l] = <<"default">> THEN data[l] ELSE data[l][2][k]
        /\ ~cfg[l].discard_old /\ pc[l] \notin {"input", "drain"} =>
              DeliveredKey(l, k) \o queue[q] = put_hist[q]
        /\ cfg[l].discard_old /\ pc[l] \notin {"input", "drain"} =>
              Len(DeliveredKey(l, k)) <= Removed(q)

\* C18 (discard_old selection): in the non-blocking drain of a key (every key
\* under TIMER, every non-trigger key under LAYER, and after the blocking get
\* under SLOWEST with discard_old) discard_old = false removes exactly the
\* head of the queue and delivers it, the rest staying in order;
\* discard_old = true removes every item available and delivers the one
\* removed last; the drain ends on an empty queue, so that a second drain
\* with no new arrival removes nothing.
C18_DiscardOld == []DrainState /\ [][DrainStep]_vars

\* With discard_old, two items were waiting on key a: the drain removed both
\* and the layer delivered the second.
C18_Witness ==
    /\ "M" \in Drainers /\ cfg["M"].discard_old
    /\ pc["M"] = "got"
    /\ "a" \in DOMAIN data["M"][2]
    /\ data["M"][2]["a"] = Item(1)
    /\ Delivered(inputs["M"], "a") = <<Item(1)>>
    /\ put_hist[1] = <<Item(0), Item(1)>>

\* ------------------------------------------------------ construction errors
\* C19 (construction errors leave state unchanged): _register_port of a name
\* already declared raises, set_input with a key already in the key list
\* raises, and a call that raised has left the two port tables, every Port's
\* subscriber list, the key list, the input-queue map and the set of queues as
\* they were before it.
C19_ConstructionErrors ==
    /\ built.clash => built.raised
    /\ built.raised => Snapshot = built.before

\* Both calls have failed, after a port a was declared and subscribed as the
\* input 'default' of T.
C19_Witness ==
    /\ built.failed = {"_register_port", "set_input"}
    /\ ports["D"] = <<"a">>
    /\ keys["T"] = <<"default">>
    /\ out_queues[DeclaredPort("D", "a")] = <<1>>

\* ------------------------------------------------------------ port identity
\* C20 (port identity is stable): no name is in both port tables; get_port
\* has returned one Port object per name; the Ports it returned for a name
\* are the Port handle_output resolves the name to, and the last
\* handle_output has fed each of them once when its mapping had the name.
C20_PortIdentity ==
    \A n \in PortNames :
        /\ ~(n \in Names(ports["D"]) /\ n \in Names(auto_ports["D"]))
        /\ Cardinality(built.returned[n]) <= 1
        /\ \A p \in built.returned[n] :
              /\ p = PortForKey("D", n)
              /\ built.op = "handle_output" /\ n \in built.arg
                    => built.fed[p] = 1

\* The name a is in both tables: of the two Ports get_port has returned for it
\* the last handle_output fed the declared one twice and the auto one never.
PortFedTwice ==
    /\ built.op = "handle_output"
    /\ built.returned["a"] = {AutoPort("D", "a"), DeclaredPort("D", "a")}
    /\ built.fed[DeclaredPort("D", "a")] = 2
    /\ built.fed[AutoPort("D", "a")] = 0
====
